---- MODULE Spec2Model ----
(***************************************************************************)
(* Model of the sre-demo-api service: the lifespan hook (startup and       *)
(* shutdown of app_state), the add_correlation_id HTTP middleware, the     *)
(* Prometheus registry it writes, the records it logs, and the route       *)
(* handlers it dispatches to.                                              *)
(*                                                                         *)
(* Spec       is the service as the source runs it.                        *)
(* SpecResume is the same service observed from the middleware's           *)
(*            suspension point `await call_next(request)` (main.py:106):   *)
(*            its initial states hold requests already suspended there.    *)
(*            Under Spec no request gets that far, because the labels()    *)
(*            call of main.py:98 raises; SpecResume is used only to show   *)
(*            what lines 105-145 do with a request handed to them.         *)
(***************************************************************************)
EXTENDS Integers, Sequences, FiniteSets, TLC

(* ------------------------------ bounds -------------------------------- *)
MaxRequests == 2

RequestIds == 1..MaxRequests

(* ------------------------------ inputs -------------------------------- *)
\* The absence of a header, of a field, of a response.
NoHeader == "<absent>"

\* Values an inbound X-Correlation-ID header takes: absent, present but
\* empty, present (the value of test_custom_correlation_id_preserved).
InboundHeaders == {NoHeader, "", "test-correlation-123"}

ItemIds == {-1, 1, 999}

\* Values the SHUTDOWN_TIMEOUT environment variable is given: one below the
\* lifespan's sleep, and the default of config.py:61.
ShutdownTimeouts == {1, 30}

\* Values of LOG_FORMAT: "json" (the default) or anything else for text.
LogFormats == {"json", "text"}

\* Settings(): the defaults of config.py, with SHUTDOWN_TIMEOUT and
\* LOG_FORMAT as the environment sets them.
Settings(shutdown_timeout, log_format) ==
    [APP_NAME |-> "sre-demo-api", VERSION |-> "1.0.0", ENVIRONMENT |-> "development",
     LOG_FORMAT |-> log_format, SHUTDOWN_TIMEOUT |-> shutdown_timeout]

ItemPath(item_id) == "/api/v1/items/" \o ToString(item_id)

\* The routes registered on the app: the handler behind each concrete path.
Routes ==
    {[method |-> "GET", path |-> "/health/live", handler |-> "liveness_probe", item_id |-> 0],
     [method |-> "GET", path |-> "/health/ready", handler |-> "readiness_probe", item_id |-> 0],
     [method |-> "GET", path |-> "/health/startup", handler |-> "startup_probe", item_id |-> 0],
     [method |-> "GET", path |-> "/metrics", handler |-> "prometheus_metrics", item_id |-> 0],
     [method |-> "GET", path |-> "/", handler |-> "root", item_id |-> 0]}
    \cup {[method |-> "GET", path |-> ItemPath(i), handler |-> "get_item", item_id |-> i] : i \in ItemIds}

\* The route template a route was registered with (the router prefix
\* "/api/v1" included).
RouteTemplate(rt) ==
    IF rt.handler = "get_item" THEN "/api/v1/items/{item_id}" ELSE rt.path

RouteOf(method, path) == CHOOSE rt \in Routes : rt.method = method /\ rt.path = path

\* Exceptions a handler can let escape (anything that is not an HTTPException).
HandlerFaults == {"RuntimeError"}

\* What the caller's cancellation raises at the middleware's await:
\* asyncio.CancelledError, a BaseException that is not an Exception.
Cancellations == {"CancelledError"}

\* Log calls made in the logger specification, and what callers pass.
MaxLogCalls == 3

LogLevels == {"INFO", "ERROR"}

\* An extra value json.dumps cannot encode (a set, a datetime, an object).
Unencodable == "<object>"

LogExtras ==
    {[correlation_id |-> "test-correlation-123"],
     [correlation_id |-> "test-correlation-123", payload |-> "text"],
     [correlation_id |-> "test-correlation-123", payload |-> Unencodable]}

(* ------------------------------ state --------------------------------- *)
VARIABLES
    app_state,                      \* main.py:36 the process-wide dict
    lifespan_pc,                    \* where the lifespan coroutine stands
    req,                            \* per request: the middleware coroutine's frame
    http_requests_total,            \* Counter: label values -> count
    http_request_duration_seconds,  \* Histogram: label values -> observations
    errors_total,                   \* Counter: label values -> count
    items_processed_total,          \* Counter: label values -> count
    log,                            \* records written by the loggers, in order
    uuid_calls,                     \* number of uuid.uuid4() calls so far
    settings,                       \* config.py:68 the environment-sourced settings
    drain_elapsed                   \* seconds the lifespan has slept since shutdown began

vars == <<app_state, lifespan_pc, req, http_requests_total,
          http_request_duration_seconds, errors_total, items_processed_total,
          log, uuid_calls, settings, drain_elapsed>>

metric_vars == <<http_requests_total, http_request_duration_seconds,
                 errors_total, items_processed_total>>

(* --------------------------- metrics registry -------------------------- *)
\* Label names the metrics are declared with.
http_requests_total_labelnames == <<"method", "endpoint", "status">>
http_request_duration_seconds_labelnames == <<"method", "endpoint", "status">>
errors_total_labelnames == <<"error_type", "severity">>
items_processed_total_labelnames == <<"operation", "status">>

Range(s) == {s[i] : i \in DOMAIN s}

\* prometheus_client's MetricWrapperBase.labels(**labelkwargs): the keyword
\* names must be exactly the declared label names, else ValueError
\* ("Incorrect label names").
LabelsAccepted(labelnames, labelkwargs) == DOMAIN labelkwargs = Range(labelnames)

\* The child series labels() selects: the values in declared order.
LabelValues(labelnames, labelkwargs) ==
    [i \in DOMAIN labelnames |-> labelkwargs[labelnames[i]]]

\* Counter.inc(amount) / Histogram.observe() on one child series.
Inc(metric, key, amount) ==
    IF key \in DOMAIN metric
    THEN [metric EXCEPT ![key] = @ + amount]
    ELSE metric @@ (key :> amount)

RECURSIVE SumOver(_, _)
SumOver(metric, keys) ==
    IF keys = {} THEN 0
    ELSE LET k == CHOOSE k \in keys : TRUE
         IN metric[k] + SumOver(metric, keys \ {k})

\* The sum of a metric over all its series.
Total(metric) == SumOver(metric, DOMAIN metric)

(* ------------------------------ logging ------------------------------- *)
\* logger.<level>(message, extra=...): one record appended to the stream.
LogRecord(level, message, extra) ==
    [level |-> level, message |-> message, extra |-> extra]

\* json.dumps(log_data): TypeError when a value of the record cannot be
\* encoded.  The callers' free-form value travels in the field `payload`.
JSONEncodable(record) ==
    ~("payload" \in DOMAIN record.extra /\ record.extra.payload = Unencodable)

\* JSONFormatter.format: the line for a record, or the exception of
\* json.dumps; there is no try block around it.
JSONFormatter_format(record, cfg) ==
    IF JSONEncodable(record)
    THEN [raised |-> "", level |-> record.level, message |-> record.message,
          service |-> cfg.APP_NAME, environment |-> cfg.ENVIRONMENT,
          fields |-> record.extra]
    ELSE [raised |-> "TypeError", level |-> "", message |-> "",
          service |-> "", environment |-> "", fields |-> <<>>]

\* TextFormatter.format: a line built with str(), which encodes anything.
TextFormatter_format(record, cfg) ==
    [raised |-> "", level |-> record.level, message |-> record.message,
     service |-> "", environment |-> "",
     fields |-> IF "correlation_id" \in DOMAIN record.extra
                THEN [correlation_id |-> record.extra.correlation_id]
                ELSE [correlation_id |-> "N/A"]]

\* setup_logging: the formatter LOG_FORMAT selects for the stdout handler.
Format(record, cfg) ==
    IF cfg.LOG_FORMAT = "json"
    THEN JSONFormatter_format(record, cfg)
    ELSE TextFormatter_format(record, cfg)

\* What the StreamHandler of setup_logging has written to sys.stdout: the
\* formatted line of every record whose formatting did not raise
\* (logging.Handler.handleError reports the others on stderr and goes on).
Stdout ==
    LET written == SelectSeq(log, LAMBDA record : Format(record, settings).raised = "")
    IN  [i \in 1..Len(written) |-> Format(written[i], settings)]

(* ------------------------------ results ------------------------------- *)
\* What a coroutine hands back: nothing yet, a response, or an exception.
Nothing ==
    [kind |-> "none", status |-> 0, body |-> "", x_correlation_id |-> NoHeader, exc |-> ""]

ResponseOf(status, body) ==
    [kind |-> "response", status |-> status, body |-> body,
     x_correlation_id |-> NoHeader, exc |-> ""]

Raised(exc) ==
    [kind |-> "raise", status |-> 0, body |-> "", x_correlation_id |-> NoHeader, exc |-> exc]

(* ------------------------------ lifespan ------------------------------ *)
\* `await asyncio.sleep(2)`: the seconds the lifespan sleeps after it has
\* set ready to false.
DrainSleepSeconds == 2

\* What the lifespan has logged when it enters its warmup sleep.
StartingLog ==
    <<LogRecord("INFO", "Starting application",
                [app_name |-> "sre-demo-api", version |-> "1.0.0",
                 environment |-> "development"])>>

\* Warmup done: ready becomes true and the app starts serving.
lifespan_startup ==
    /\ lifespan_pc = "starting"
    /\ app_state' = [app_state EXCEPT !.ready = TRUE]
    /\ lifespan_pc' = "serving"
    /\ log' = Append(log, LogRecord("INFO", "Application ready to serve traffic", [none |-> TRUE]))
    /\ UNCHANGED <<req, metric_vars, uuid_calls, settings, drain_elapsed>>

\* lifespan_shutdown without the write of line 65: ready stays true while
\* the process drains.
lifespan_shutdown_keeps_ready ==
    /\ lifespan_pc = "serving"
    /\ lifespan_pc' = "draining"
    /\ log' = Append(log, LogRecord("INFO", "Initiating graceful shutdown", [none |-> TRUE]))
    /\ UNCHANGED <<app_state, req, metric_vars, uuid_calls, settings, drain_elapsed>>

\* Shutdown begins: ready becomes false, then the fixed sleep starts.
lifespan_shutdown ==
    /\ lifespan_pc = "serving"
    /\ app_state' = [app_state EXCEPT !.ready = FALSE]
    /\ lifespan_pc' = "draining"
    /\ log' = Append(log, LogRecord("INFO", "Initiating graceful shutdown", [none |-> TRUE]))
    /\ UNCHANGED <<req, metric_vars, uuid_calls, settings, drain_elapsed>>

\* One second of the shutdown sleep passes.
lifespan_sleep ==
    /\ lifespan_pc = "draining"
    /\ drain_elapsed < DrainSleepSeconds
    /\ drain_elapsed' = drain_elapsed + 1
    /\ UNCHANGED <<app_state, lifespan_pc, req, metric_vars, log, uuid_calls, settings>>

\* The sleep is over: the lifespan returns and the process stops.
lifespan_exit ==
    /\ lifespan_pc = "draining"
    /\ drain_elapsed = DrainSleepSeconds
    /\ lifespan_pc' = "stopped"
    /\ log' = Append(log, LogRecord("INFO", "Shutdown complete", [none |-> TRUE]))
    /\ UNCHANGED <<app_state, req, metric_vars, uuid_calls, settings, drain_elapsed>>

(* ------------------------------ handlers ------------------------------ *)
liveness_probe == ResponseOf(200, "alive")

readiness_probe(state) ==
    IF state.ready THEN ResponseOf(200, "ready") ELSE ResponseOf(503, "not_ready")

startup_probe(state) ==
    IF state.ready THEN ResponseOf(200, "started") ELSE ResponseOf(503, "starting")

prometheus_metrics == ResponseOf(200, "metrics")

root == ResponseOf(200, "operational")

\* get_item's answer; an HTTPException it raises reaches the middleware as
\* the response with that status.
get_item(item_id) ==
    IF item_id < 0 THEN ResponseOf(400, "Item ID must be non-negative")
    ELSE IF item_id = 999 THEN ResponseOf(404, "Item 999 not found")
    ELSE ResponseOf(200, ItemPath(item_id))

\* The records get_item logs, with the correlation ID it reads from
\* request.state.
get_item_logs(item_id, correlation_id) ==
    LET extra == [correlation_id |-> correlation_id, item_id |-> item_id]
    IN  <<LogRecord("INFO", "Fetching item", extra)>>
        \o (IF item_id < 0 THEN <<LogRecord("WARNING", "Invalid item ID requested", extra)>>
            ELSE IF item_id = 999 THEN <<LogRecord("ERROR", "Item not found", extra)>>
            ELSE <<>>)

\* The response of the handler a route names.
HandlerResponse(route, state) ==
    CASE route.handler = "liveness_probe" -> liveness_probe
      [] route.handler = "readiness_probe" -> readiness_probe(state)
      [] route.handler = "startup_probe" -> startup_probe(state)
      [] route.handler = "prometheus_metrics" -> prometheus_metrics
      [] route.handler = "root" -> root
      [] route.handler = "get_item" -> get_item(route.item_id)

(* ----------------------------- middleware ----------------------------- *)
uuid4(n) == "uuid-" \o ToString(n)

\* request.headers.get("X-Correlation-ID", str(uuid.uuid4())): the default
\* is used only when the header is absent.
HeaderOrDefault(header, default) == IF header = NoHeader THEN default ELSE header

NewRequest ==
    [pc |-> "new", method |-> "", path |-> "", header |-> NoHeader,
     correlation_id |-> NoHeader, outcome |-> Nothing, result |-> Nothing,
     phase |-> ""]

\* add_correlation_id counting requests in app_state and restarting the
\* uptime clock, as a per-request bookkeeping slip would.
add_correlation_id_touches_app_state(r) ==
    /\ req[r].pc = "new"
    /\ lifespan_pc # "stopped"
    /\ \E rt \in Routes, header \in InboundHeaders :
          /\ uuid_calls' = uuid_calls + 1
          /\ req' = [req EXCEPT ![r] =
                       [req[r] EXCEPT !.method = rt.method, !.path = rt.path,
                                      !.header = header,
                                      !.correlation_id =
                                          HeaderOrDefault(header, uuid4(uuid_calls + 1)),
                                      !.pc = "raised",
                                      !.result = Raised("ValueError"),
                                      !.phase = lifespan_pc]]
    /\ app_state' = [app_state EXCEPT !.start_time = 1,
                                       !.request_count = 1]
    /\ UNCHANGED <<lifespan_pc, metric_vars, log, settings, drain_elapsed>>

\* The middleware from its entry to its first suspension: correlation ID,
\* request counter, then `await call_next(request)`.  An exception raised
\* before the try block leaves the middleware at once.
add_correlation_id(r) ==
    /\ req[r].pc = "new"
    /\ lifespan_pc # "stopped"
    /\ \E rt \in Routes, header \in InboundHeaders :
          LET correlation_id == HeaderOrDefault(header, uuid4(uuid_calls + 1))
              labelkwargs == [method |-> rt.method, endpoint |-> rt.path]
              entered == [req[r] EXCEPT !.method = rt.method, !.path = rt.path,
                                        !.header = header,
                                        !.correlation_id = correlation_id]
          IN  /\ uuid_calls' = uuid_calls + 1
              /\ IF LabelsAccepted(http_requests_total_labelnames, labelkwargs)
                 THEN /\ http_requests_total' =
                            Inc(http_requests_total,
                                LabelValues(http_requests_total_labelnames, labelkwargs), 1)
                      /\ req' = [req EXCEPT ![r] = [entered EXCEPT !.pc = "awaiting"]]
                 ELSE /\ http_requests_total' = http_requests_total
                      /\ req' = [req EXCEPT ![r] =
                                   [entered EXCEPT !.pc = "raised",
                                                   !.result = Raised("ValueError"),
                                                   !.phase = lifespan_pc]]
    /\ UNCHANGED <<app_state, lifespan_pc, http_request_duration_seconds,
                   errors_total, items_processed_total, log, settings, drain_elapsed>>

\* `await call_next(request)`: the router runs the route's handler.  The
\* handler answers, or lets an exception escape, or the request is cancelled
\* while the handler is suspended.  The handler reads app_state and
\* request.state when it runs.
call_next(r) ==
    /\ req[r].pc = "awaiting"
    /\ lifespan_pc # "stopped"
    /\ \E fault \in HandlerFaults \cup Cancellations \cup {""} :
          LET rt == RouteOf(req[r].method, req[r].path)
              answer == HandlerResponse(rt, app_state)
              is_item == rt.handler = "get_item" /\ fault = ""
          IN  /\ req' = [req EXCEPT ![r].pc = "handled",
                                    ![r].phase = lifespan_pc,
                                    ![r].outcome = IF fault = "" THEN answer ELSE Raised(fault)]
              /\ log' = IF is_item
                        THEN log \o get_item_logs(rt.item_id, req[r].correlation_id)
                        ELSE log
              /\ errors_total' =
                    IF is_item /\ rt.item_id < 0
                    THEN Inc(errors_total,
                             LabelValues(errors_total_labelnames,
                                 [error_type |-> "validation_error", severity |-> "warning"]), 1)
                    ELSE IF is_item /\ rt.item_id = 999
                    THEN Inc(errors_total,
                             LabelValues(errors_total_labelnames,
                                 [error_type |-> "not_found", severity |-> "info"]), 1)
                    ELSE errors_total
              /\ items_processed_total' =
                    IF is_item /\ answer.status = 200
                    THEN Inc(items_processed_total,
                             LabelValues(items_processed_total_labelnames,
                                 [operation |-> "get_item", status |-> "success"]), 1)
                    ELSE items_processed_total
    /\ UNCHANGED <<app_state, lifespan_pc, http_requests_total,
                   http_request_duration_seconds, uuid_calls, settings, drain_elapsed>>

\* The middleware after call_next: the rest of the try block when the
\* handler answered and nothing in the block raises, the except block
\* otherwise.  An exception raised inside the except block replaces the one
\* being handled.  `except Exception` does not catch a cancellation, and
\* there is no finally block: a cancellation leaves the middleware at once.
resume(r) ==
    /\ req[r].pc = "handled"
    /\ lifespan_pc # "stopped"
    /\ LET rq == req[r]
           response == rq.outcome
           observed == [method |-> rq.method, endpoint |-> rq.path,
                        status |-> response.status]
           counted == [method |-> rq.method, endpoint |-> rq.path]
           e == IF response.kind = "raise" THEN response.exc
                ELSE IF ~LabelsAccepted(http_request_duration_seconds_labelnames, observed)
                THEN "ValueError"
                ELSE ""
       IN  IF e \in Cancellations
           THEN /\ req' = [req EXCEPT ![r].pc = "raised", ![r].result = Raised(e)]
                /\ UNCHANGED <<http_requests_total, http_request_duration_seconds, log>>
           ELSE IF e = ""
           THEN /\ http_request_duration_seconds' =
                      Inc(http_request_duration_seconds,
                          LabelValues(http_request_duration_seconds_labelnames, observed), 1)
                /\ log' = Append(log, LogRecord("INFO", "Request completed",
                              [correlation_id |-> rq.correlation_id,
                               method |-> rq.method, path |-> rq.path,
                               status_code |-> response.status,
                               duration_ms |-> "measured"]))
                /\ req' = [req EXCEPT ![r].pc = "returned",
                              ![r].result = [response EXCEPT
                                               !.x_correlation_id = rq.correlation_id]]
                /\ UNCHANGED http_requests_total
           ELSE /\ log' = Append(log, LogRecord("ERROR", "Request failed",
                              [correlation_id |-> rq.correlation_id,
                               method |-> rq.method, path |-> rq.path,
                               error |-> e, exc_info |-> TRUE]))
                /\ IF LabelsAccepted(http_requests_total_labelnames, counted)
                   THEN /\ http_requests_total' =
                              Inc(http_requests_total,
                                  LabelValues(http_requests_total_labelnames, counted), 1)
                        /\ req' = [req EXCEPT ![r].pc = "raised",
                                              ![r].result = Raised(e)]
                   ELSE /\ http_requests_total' = http_requests_total
                        /\ req' = [req EXCEPT ![r].pc = "raised",
                                              ![r].result = Raised("ValueError")]
                /\ UNCHANGED http_request_duration_seconds
    /\ UNCHANGED <<app_state, lifespan_pc, errors_total, items_processed_total,
                   uuid_calls, settings, drain_elapsed>>

Init ==
    /\ app_state = [ready |-> FALSE, start_time |-> 0, request_count |-> 0]
    /\ lifespan_pc = "starting"
    /\ req = [r \in RequestIds |-> NewRequest]
    /\ http_requests_total = <<>>
    /\ http_request_duration_seconds = <<>>
    /\ errors_total = <<>>
    /\ items_processed_total = <<>>
    /\ log = StartingLog
    /\ uuid_calls = 0
    /\ settings \in {Settings(t, "json") : t \in ShutdownTimeouts}
    /\ drain_elapsed = 0

Next ==
    \/ lifespan_startup
    \/ lifespan_shutdown
    \/ lifespan_sleep
    \/ lifespan_exit
    \/ \E r \in RequestIds : add_correlation_id(r)

Spec == Init /\ [][Next]_vars

(* ----------------- the middleware from its suspension ------------------ *)
\* A request suspended at `await call_next(request)`: its inputs, and the
\* correlation ID lines 94-95 gave it (request r drew the r-th uuid).
Suspended(r, rt, header) ==
    [NewRequest EXCEPT !.pc = "awaiting", !.method = rt.method, !.path = rt.path,
                       !.header = header,
                       !.correlation_id = HeaderOrDefault(header, uuid4(r))]

SuspendedOrNew(r) ==
    {NewRequest} \cup {Suspended(r, rt, header) : rt \in Routes, header \in InboundHeaders}

InitResume ==
    /\ app_state = [ready |-> FALSE, start_time |-> 0, request_count |-> 0]
    /\ lifespan_pc = "starting"
    /\ req \in {f \in [RequestIds -> UNION {SuspendedOrNew(r) : r \in RequestIds}] :
                   \A r \in RequestIds : f[r] \in SuspendedOrNew(r)}
    /\ http_requests_total = <<>>
    /\ http_request_duration_seconds = <<>>
    /\ errors_total = <<>>
    /\ items_processed_total = <<>>
    /\ log = StartingLog
    /\ uuid_calls = MaxRequests
    /\ settings = Settings(30, "json")
    /\ drain_elapsed = 0

NextResume ==
    \/ lifespan_startup
    \/ lifespan_shutdown
    \/ lifespan_sleep
    \/ lifespan_exit
    \/ \E r \in RequestIds : add_correlation_id(r)
    \/ \E r \in RequestIds : call_next(r)
    \/ \E r \in RequestIds : resume(r)

SpecResume == InitResume /\ [][NextResume]_vars

(* ------------------------------ claims -------------------------------- *)
Entered(r) == req[r].pc # "new"

Finished(r) == req[r].pc \in {"returned", "raised"}

\* Request r was cancelled by its caller while its handler was suspended.
Cancelled(r) == req[r].outcome.kind = "raise" /\ req[r].outcome.exc \in Cancellations

\* The middleware handed the transport this response for request r.
Answered(r, status, body) ==
    /\ req[r].result.kind = "response"
    /\ req[r].result.status = status
    /\ req[r].result.body = body

\* Observations of the latency histogram in the series of one endpoint.
ObservationsFor(path) ==
    SumOver(http_request_duration_seconds,
            {k \in DOMAIN http_request_duration_seconds : k[2] = path})

\* C1: after any sequence of requests the total of http_requests_total
\* equals the number of requests that entered the middleware (one increment
\* per request, whatever the handler does).
C1_CounterCountsEachRequestOnce ==
    Total(http_requests_total) = Cardinality({r \in RequestIds : Entered(r)})

\* C2: for every route, the number of latency observations equals the
\* number of finished requests to that route, answered or failed.
C2_ObservationsEqualFinished ==
    \A rt \in Routes :
        ObservationsFor(rt.path) =
            Cardinality({r \in RequestIds : Finished(r) /\ req[r].path = rt.path})

\* C3: a finished request that supplied X-Correlation-ID has a response
\* whose X-Correlation-ID header is the supplied value.
C3_SuppliedIdEchoed ==
    \A r \in RequestIds :
        (Finished(r) /\ req[r].header # NoHeader)
            => /\ req[r].result.kind = "response"
               /\ req[r].result.x_correlation_id = req[r].header

\* C4: a request whose X-Correlation-ID header is absent or empty gets a
\* generated, non-empty correlation ID; the empty string is never a
\* request's correlation ID.
C4_EmptyIdNeverUsed ==
    \A r \in RequestIds :
        Entered(r) =>
            /\ req[r].correlation_id # ""
            /\ (req[r].header \in {NoHeader, ""} =>
                  \E n \in 1..uuid_calls : req[r].correlation_id = uuid4(n))

C6_ReadinessFollowsLifecycle ==
    \A r \in RequestIds :
        (Finished(r) /\ req[r].path = "/health/ready")
            => /\ req[r].phase = "serving" => Answered(r, 200, "ready")
               /\ req[r].phase \in {"starting", "draining"}
                     => Answered(r, 503, "not_ready")

\* C7: a GET /health/live is answered 200 "alive" in every lifecycle state.
C7_LivenessAlwaysAlive ==
    \A r \in RequestIds :
        (Finished(r) /\ req[r].path = "/health/live") => Answered(r, 200, "alive")

ErrorLogged(correlation_id) ==
    \E i \in DOMAIN log :
        /\ log[i].level = "ERROR"
        /\ log[i].message = "Request failed"
        /\ log[i].extra.correlation_id = correlation_id

SummaryLogged(r, lg) ==
    /\ Len(lg) > 0
    /\ lg[Len(lg)].message \in {"Request completed", "Request failed"}
    /\ lg[Len(lg)].extra.correlation_id = req[r].correlation_id
    /\ lg[Len(lg)].extra.path = req[r].path

C11_GraceIsConfiguredTimeout ==
    /\ lifespan_pc = "stopped" => drain_elapsed = settings.SHUTDOWN_TIMEOUT
    /\ lifespan_pc = "draining" => drain_elapsed <= settings.SHUTDOWN_TIMEOUT

C13_GetItemStatusByItemId ==
    \A r \in RequestIds :
        Finished(r) =>
            \A i \in ItemIds :
                req[r].path = ItemPath(i) =>
                    /\ req[r].result.kind = "response"
                    /\ req[r].result.status =
                          (IF i < 0 THEN 400 ELSE IF i = 999 THEN 404 ELSE 200)
                    /\ (req[r].result.status = 200 => req[r].result.body = ItemPath(i))

(* ----------------------------- the logger ------------------------------ *)
\* get_logger(name).info / .error (message, extra=...) by any caller.
logger_call ==
    /\ Len(log) < Len(StartingLog) + MaxLogCalls
    /\ \E level \in LogLevels, extra \in LogExtras :
          log' = Append(log, LogRecord(level, "event", extra))
    /\ UNCHANGED <<app_state, lifespan_pc, req, metric_vars, uuid_calls, settings,
                   drain_elapsed>>

InitLog ==
    /\ app_state = [ready |-> FALSE, start_time |-> 0, request_count |-> 0]
    /\ lifespan_pc = "starting"
    /\ req = [r \in RequestIds |-> NewRequest]
    /\ http_requests_total = <<>>
    /\ http_request_duration_seconds = <<>>
    /\ errors_total = <<>>
    /\ items_processed_total = <<>>
    /\ log = StartingLog
    /\ uuid_calls = 0
    /\ settings \in {Settings(30, f) : f \in LogFormats}
    /\ drain_elapsed = 0

NextLog == logger_call

SpecLog == InitLog /\ [][NextLog]_vars

\* C14: every log call leaves exactly one record on standard output, the
\* formatted record or a fallback when formatting failed.
C14_OneRecordPerLogCall == Len(Stdout) = Len(log)

\* The lifecycle state the lifespan coroutine's position stands for.
LifecycleOrder ==
    {<<"starting", "serving">>, <<"serving", "draining">>, <<"draining", "stopped">>}

\* C15: the lifecycle starts in STARTING with ready false and only moves
\* forward through STARTING, READY, DRAINING, STOPPED; ready becomes true
\* only on the step into READY, is false from the step into DRAINING on,
\* and is never set back to true.
C15_LifecycleMovesForward ==
    /\ (lifespan_pc = "starting" /\ ~app_state.ready)
    /\ [][/\ (lifespan_pc' # lifespan_pc => <<lifespan_pc, lifespan_pc'>> \in LifecycleOrder)
          /\ ((~app_state.ready /\ app_state'.ready)
                 => (lifespan_pc = "starting" /\ lifespan_pc' = "serving"))
          /\ (lifespan_pc' \in {"draining", "stopped"} => ~app_state'.ready)
          /\ (lifespan_pc' = "serving" => app_state'.ready)]_vars

\* The lifecycle has run through all four states and ready is false again.
C15_Witness == lifespan_pc = "stopped" /\ ~app_state.ready /\ drain_elapsed = DrainSleepSeconds

\* C16: a step of a request leaves app_state as it was; ready changes only
\* on a step of the lifespan (startup or shutdown), and start_time never
\* changes.
C16_RequestsLeaveLifecycleAlone ==
    [][/\ (req' # req => app_state' = app_state)
       /\ (app_state'.ready # app_state.ready => lifespan_pc' # lifespan_pc)
       /\ app_state'.start_time = app_state.start_time]_vars

\* Requests have gone through the middleware while the app was ready and
\* after shutdown began, and ready is what the lifespan last wrote.
C16_Witness ==
    /\ \E r \in RequestIds : Finished(r) /\ req[r].phase = "serving"
    /\ \E r \in RequestIds : Finished(r) /\ req[r].phase = "draining"
    /\ lifespan_pc = "draining" /\ ~app_state.ready

MiddlewareRecords ==
    {i \in DOMAIN log : log[i].message \in {"Request completed", "Request failed"}}

\* C18: the log holds exactly one middleware record per finished request,
\* and each such record carries method, path, status, duration and
\* correlation ID.
C18_OneSummaryRecordPerRequest ==
    /\ Cardinality(MiddlewareRecords) = Cardinality({r \in RequestIds : Finished(r)})
    /\ \A i \in MiddlewareRecords :
          {"method", "path", "status_code", "duration_ms", "correlation_id"}
              \subseteq DOMAIN log[i].extra

\* C19: the pre-handler steps never raise: no request leaves the
\* middleware with an exception before its handler was invoked.
C19_PreHandlerStepsNeverRaise ==
    \A r \in RequestIds :
        ~(req[r].pc = "raised" /\ req[r].outcome.kind = "none")

\* The correlation ID lines 94-95 gave a request suspended at call_next.
AssignedId(r) == HeaderOrDefault(req[r].header, uuid4(r))

\* C20: whatever the interleaving, the records a request's handler logs,
\* the record the middleware logs for it and its response header carry the
\* correlation ID assigned to that request.
C20_EachRequestKeepsItsId ==
    [][\A r \in RequestIds :
          /\ (req[r].pc = "awaiting" /\ req'[r].pc = "handled")
                => \A i \in (DOMAIN log') \ (DOMAIN log) :
                      log'[i].extra.correlation_id = AssignedId(r)
          /\ (req[r].pc = "handled" /\ req'[r].pc = "returned")
                => /\ log'[Len(log')].extra.correlation_id = AssignedId(r)
                   /\ req'[r].result.x_correlation_id = AssignedId(r)]_vars

====
